---- MODULE Spec2Model ----
(***************************************************************************)
(* Network speed monitor (main.py, config_handler.py, sms_handler.py,      *)
(* first_run.py).  The entry points of the program are modelled as whole   *)
(* operations: main(), the module-level functions perform_speed_test and   *)
(* save_to_csv called with a ConfigHandler built from config.ini, and      *)
(* SMSHandler.send_alert.  A behaviour runs one of them (variable entry)   *)
(* on the inputs that entry point takes.                                   *)
(*                                                                         *)
(* Units: speeds and latencies read from the measurement session are       *)
(* integers in thousandths (Mbps/1000, ms/1000); the fields of a           *)
(* measurement record, which the code rounds to 2 decimals, are integers   *)
(* in hundredths; delays are whole seconds.                                *)
(*                                                                         *)
(* A Python call either returns or raises: every modelled function yields  *)
(* a record whose field kind is "return" or "raise".                       *)
(***************************************************************************)
EXTENDS Integers, Sequences, FiniteSets, TLC

VARIABLES
    config_ini,   \* config.ini on disk: [exists, thresholds, sms, general]
    fs,           \* Data directory and Data/network_metrics.csv
    net,          \* what the measurement session yields when it is asked
    boot,         \* whether first-run initialization / the dependency import can succeed
    sms_handler,  \* an SMSHandler object: [enabled, phone_number, provider, api_key]
    mainpc,       \* main(): "start", "sleeping" (inside time.sleep of the loop), "returned", "raised"
    main_exc,     \* the exception main() ended with ("None" if none)
    loop,         \* main()'s loop: [entered, probes, slept, alerts]
    probe,        \* the last direct call of perform_speed_test: [calls, kind, exc, result, alerts, session]
    save,         \* the direct calls of save_to_csv: [calls, kind, exc, data, io, wrote, written]
    alert,        \* the direct calls of sms_handler.send_alert: [calls, kind, result, attempted, response, attempts]
    entry         \* what is run: main(), or one of the functions called directly

vars == <<config_ini, fs, net, boot, sms_handler, mainpc, main_exc, loop, probe, save,
          alert, entry>>

----------------------------------------------------------------------------
(* Bounds of the model *)

MaxProbeCalls == 1    \* direct calls of perform_speed_test
MaxSaveCalls == 3     \* direct calls of save_to_csv
MaxCycles == 2    \* loop iterations of main()
MaxAlertCalls == 2    \* direct calls of send_alert

(* Program constants *)

Fail == -1                      \* a session call that raises instead of returning a number
SuspiciousSpeed == 100          \* 0.1 Mbps
PingLow == 1000                 \* 1 ms
PingHigh == 1000000             \* 1000 ms
InvalidCooldown == 300          \* seconds
ErrorPause == 60                \* seconds
DefaultDownloadThreshold == 50000
DefaultUploadThreshold == 10000
DefaultPingThreshold == 100000
DefaultTestInterval == 1200
DefaultJitterRange == 60

----------------------------------------------------------------------------
(* config_handler.py *)

DefaultConfig ==
    [exists |-> TRUE,
     thresholds |-> [download_speed |-> DefaultDownloadThreshold,
                     upload_speed |-> DefaultUploadThreshold,
                     ping |-> DefaultPingThreshold],
     sms |-> [enabled |-> TRUE, chat_id |-> "", provider |-> "telegram", api_key |-> ""],
     general |-> [test_interval |-> DefaultTestInterval, jitter_range |-> DefaultJitterRange]]

\* ConfigHandler(): _ensure_config_exists writes the defaults when config.ini
\* is missing, load_config then reads the file.
ConfigHandler(ini) == IF ini.exists THEN ini ELSE DefaultConfig

get_thresholds(cfg) == cfg.thresholds

get_sms_config(cfg) ==
    [enabled |-> cfg.sms.enabled, chat_id |-> cfg.sms.chat_id,
     provider |-> cfg.sms.provider, api_key |-> cfg.sms.api_key]

get_general_config(cfg) ==
    [test_interval |-> cfg.general.test_interval,
     jitter_range |-> cfg.general.jitter_range]

----------------------------------------------------------------------------
(* sms_handler.py *)

\* SMSHandler.__init__ subscripts the dict with these keys; a missing one is a KeyError.
SMSHandlerKeys == {"enabled", "phone_number", "provider", "api_key"}

SMSHandler_init_raises(config) == ~(SMSHandlerKeys \subseteq DOMAIN config)

\* a twilio sender that delivers
_send_twilio_delivers == TRUE

_send_twilio == FALSE
_send_nexmo == FALSE

\* str.lower() on the provider names that occur in the model
Lower(p) ==
    IF p = "Twilio" THEN "twilio"
    ELSE IF p = "NEXMO" THEN "nexmo"
    ELSE p

\* _send_sms: "true"/"false"/"none" for True/False/None.  fault = "raise": the
\* provider routine raises, which the handler of lines 51-53 turns into None.
_send_sms(h, fault) ==
    IF Lower(h.provider) = "twilio"
    THEN (IF fault = "raise" THEN "none" ELSE IF _send_twilio THEN "true" ELSE "false")
    ELSE IF Lower(h.provider) = "nexmo"
    THEN (IF fault = "raise" THEN "none" ELSE IF _send_nexmo THEN "true" ELSE "false")
    ELSE "none"

\* send_alert without the test of self.enabled
send_alert_unguarded(h, fault) ==
    IF h.phone_number = "" \/ h.provider = "" \/ h.api_key = ""
    THEN [kind |-> "return", result |-> FALSE, attempted |-> FALSE, response |-> "unasked"]
    ELSE [kind |-> "return", result |-> (_send_sms(h, fault) = "true"), attempted |-> TRUE,
          response |-> _send_sms(h, fault)]

\* send_alert taking every response but False for a success
send_alert_none_is_success(h, fault) ==
    IF ~h.enabled
    THEN [kind |-> "return", result |-> FALSE, attempted |-> FALSE, response |-> "unasked"]
    ELSE IF h.phone_number = "" \/ h.provider = "" \/ h.api_key = ""
    THEN [kind |-> "return", result |-> FALSE, attempted |-> FALSE, response |-> "unasked"]
    ELSE [kind |-> "return", result |-> (_send_sms(h, fault) # "false"), attempted |-> TRUE,
          response |-> _send_sms(h, fault)]

\* send_alert: [kind, result |-> the boolean returned, attempted |-> whether
\* _send_sms was called, response |-> what it answered]
send_alert(h, fault) ==
    IF ~h.enabled
    THEN [kind |-> "return", result |-> FALSE, attempted |-> FALSE, response |-> "unasked"]
    ELSE IF h.phone_number = "" \/ h.provider = "" \/ h.api_key = ""
    THEN [kind |-> "return", result |-> FALSE, attempted |-> FALSE, response |-> "unasked"]
    ELSE [kind |-> "return", result |-> (_send_sms(h, fault) = "true"), attempted |-> TRUE,
          response |-> _send_sms(h, fault)]

----------------------------------------------------------------------------
(* main.py: console_print *)

\* console_print subscripts get_general_config() with 'headless': a KeyError
\* when the dict has no such key.
console_print_raises(cfg) == "headless" \notin DOMAIN get_general_config(cfg)

----------------------------------------------------------------------------
(* main.py: perform_speed_test *)

\* round(x, 2): thousandths to hundredths, ties to even
Round2(x) ==
    LET q == x \div 10
        r == x % 10
    IN  IF r < 5 THEN q
        ELSE IF r > 5 THEN q + 1
        ELSE IF q % 2 = 0 THEN q ELSE q + 1

NoMeasurement ==
    [download |-> 0, upload |-> 0, ping |-> 0, isp |-> "None",
     server_location |-> "None", server_id |-> 0]

FailureMeasurement ==
    [download |-> -100, upload |-> -100, ping |-> -100, isp |-> "Error",
     server_location |-> "Error", server_id |-> -1]

Raise(exc, alerts, calls) ==
    [kind |-> "raise", exc |-> exc, result |-> NoMeasurement, alerts |-> alerts, calls |-> calls]

Return(m, alerts, calls) ==
    [kind |-> "return", exc |-> "None", result |-> m, alerts |-> alerts, calls |-> calls]

Alert(metric, value, threshold, h) ==
    [metric |-> metric, value |-> value, threshold |-> threshold, sent |-> send_alert(h, "none").result]

\* lines 82-115: ping, its threshold and its fallback, the record, the validation
probe_ping(cfg, h, n, download_speed, upload_speed, alerts, calls) ==
    LET thresholds == get_thresholds(cfg)
        ping0 == n.ping
        alerts1 == IF ping0 > thresholds.ping
                   THEN Append(alerts, Alert("ping", ping0, thresholds.ping, h))
                   ELSE alerts
        ping == IF ping0 > PingHigh \/ ping0 < PingLow THEN n.latency ELSE ping0
        test_results == [download |-> Round2(download_speed),
                         upload |-> Round2(upload_speed),
                         ping |-> Round2(ping),
                         isp |-> "isp",
                         server_location |-> "server",
                         server_id |-> 1]
    IN  IF test_results.download > 0 /\ test_results.upload > 0 /\ test_results.ping > 0
        THEN IF console_print_raises(cfg)
             THEN Raise("KeyError", alerts1, calls)
             ELSE Return(test_results, alerts1, calls)
        ELSE Raise("ValueError", alerts1, calls)

\* lines 66-80: the upload, its threshold and its single retry
probe_upload(cfg, h, n, download_speed, alerts, calls) ==
    LET thresholds == get_thresholds(cfg)
    IN  IF console_print_raises(cfg) THEN Raise("KeyError", alerts, calls)
        ELSE IF n.u1 = Fail THEN Raise("SpeedtestException", alerts, calls)
        ELSE LET alerts1 == IF n.u1 < thresholds.upload_speed
                            THEN Append(alerts, Alert("upload", n.u1, thresholds.upload_speed, h))
                            ELSE alerts
                 calls1 == [calls EXCEPT !.upload = 1]
             IN  IF n.u1 < SuspiciousSpeed
                 THEN IF n.u2 = Fail
                      THEN Raise("SpeedtestException", alerts1, calls1)
                      ELSE probe_ping(cfg, h, n, download_speed, n.u2, alerts1,
                                      [calls1 EXCEPT !.upload = 2])
                 ELSE probe_ping(cfg, h, n, download_speed, n.u1, alerts1, calls1)

\* lines 48-62: the download, its threshold and its single retry
probe_download(cfg, h, n) ==
    LET thresholds == get_thresholds(cfg)
        calls0 == [download |-> 0, upload |-> 0]
    IN  IF console_print_raises(cfg) THEN Raise("KeyError", <<>>, calls0)
        ELSE IF n.d1 = Fail THEN Raise("SpeedtestException", <<>>, calls0)
        ELSE LET alerts1 == IF n.d1 < thresholds.download_speed
                            THEN <<Alert("download", n.d1, thresholds.download_speed, h)>>
                            ELSE <<>>
                 calls1 == [calls0 EXCEPT !.download = 1]
             IN  IF n.d1 < SuspiciousSpeed
                 THEN IF n.d2 = Fail
                      THEN Raise("SpeedtestException", alerts1, calls1)
                      ELSE probe_upload(cfg, h, n, n.d2, alerts1,
                                        [calls1 EXCEPT !.download = 2])
                 ELSE probe_upload(cfg, h, n, n.d1, alerts1, calls1)

\* lines 29-115: the body of the try block
probe_try(cfg, h, n) ==
    LET calls0 == [download |-> 0, upload |-> 0]
    IN  IF console_print_raises(cfg) THEN Raise("KeyError", <<>>, calls0)
        ELSE IF ~n.best_server THEN Raise("SpeedtestException", <<>>, calls0)
        ELSE probe_download(cfg, h, n)

\* lines 117-128: the except handler, which calls console_print before it
\* builds the failure record
probe_except(cfg, body) ==
    IF body.kind = "return" THEN body
    ELSE IF console_print_raises(cfg) THEN Raise("KeyError", body.alerts, body.calls)
    ELSE Return(FailureMeasurement, body.alerts, body.calls)

\* the whole function
perform_speed_test(cfg, h, n) == probe_except(cfg, probe_try(cfg, h, n))

----------------------------------------------------------------------------
(* main.py: save_to_csv *)

Header == [kind |-> "header", data |-> NoMeasurement]
Row(data) == [kind |-> "data", data |-> data]

\* save_to_csv with the file opened in mode 'w' instead of 'a'
save_to_csv_truncating(data, cfg, f, io) ==
    LET file_exists == f.csv_exists
        opened == f.data_dir /\ io # "open"
        header_fails == ~file_exists /\ io = "header"
        head == IF file_exists \/ header_fails THEN <<>> ELSE <<Header>>
        row_fails == header_fails \/ io = "row"
        written == IF row_fails THEN head ELSE Append(head, Row(data))
        f1 == IF opened THEN [f EXCEPT !.csv_exists = TRUE, !.csv = written] ELSE f
    IN  [kind |-> "raise", exc |-> "KeyError", fs |-> f1, wrote |-> opened /\ ~row_fails]

\* io: the step of the append at which the file system fails, "none" if it
\* does not.  open(csv_file, 'a') creates the file and raises when Data is
\* missing; the header is written only when the file did not exist before.
\* console_print follows the write inside the try block, and the except
\* handler calls console_print before it logs.
save_to_csv(data, cfg, f, io) ==
    LET file_exists == f.csv_exists
        opened == f.data_dir /\ io # "open"
        header_fails == ~file_exists /\ io = "header"
        head == IF file_exists \/ header_fails THEN f.csv ELSE Append(f.csv, Header)
        row_fails == header_fails \/ io = "row"
        written == IF row_fails THEN head ELSE Append(head, Row(data))
        f1 == IF opened THEN [f EXCEPT !.csv_exists = TRUE, !.csv = written] ELSE f
        raised_in_try == ~opened \/ row_fails \/ console_print_raises(cfg)
    IN  IF raised_in_try /\ console_print_raises(cfg)
        THEN [kind |-> "raise", exc |-> "KeyError", fs |-> f1, wrote |-> opened /\ ~row_fails]
        ELSE [kind |-> "return", exc |-> "None", fs |-> f1, wrote |-> opened /\ ~row_fails]

----------------------------------------------------------------------------
(* first_run.py *)

\* FirstRunHandler.initialize: creates Data when it is missing; success is
\* False when the directory, the configuration or the logging set-up raises.
initialize(f, b) ==
    [success |-> b.init_ok,
     fs |-> IF b.init_ok THEN [f EXCEPT !.data_dir = TRUE] ELSE f]

check_dependencies(b) == [success |-> b.deps_ok]

----------------------------------------------------------------------------
(* main.py: main *)

NoLoop == [entered |-> FALSE, probes |-> 0, slept |-> <<>>, alerts |-> <<>>]

\* lines 150-177: up to the loop.  [pc, exc, fs, entered]
main_start(cfg, f, b) ==
    IF console_print_raises(cfg)
    THEN [pc |-> "raised", exc |-> "KeyError", fs |-> f, entered |-> FALSE]
    ELSE LET init_status == initialize(f, b)
         IN  IF ~init_status.success
             THEN [pc |-> "returned", exc |-> "None", fs |-> init_status.fs, entered |-> FALSE]
             ELSE IF ~check_dependencies(b).success
             THEN [pc |-> "returned", exc |-> "None", fs |-> init_status.fs, entered |-> FALSE]
             ELSE IF SMSHandler_init_raises(get_sms_config(cfg))
             THEN [pc |-> "raised", exc |-> "KeyError", fs |-> init_status.fs, entered |-> FALSE]
             ELSE [pc |-> "loop", exc |-> "None", fs |-> init_status.fs, entered |-> TRUE]

\* lines 200-204: the except handler of the loop calls console_print before its sleep
loop_except(cfg, f, alerts, slept) ==
    IF console_print_raises(cfg)
    THEN [pc |-> "raised", exc |-> "KeyError", fs |-> f, alerts |-> alerts, slept |-> slept]
    ELSE [pc |-> "sleeping", exc |-> "None", fs |-> f, alerts |-> alerts,
          slept |-> Append(slept, ErrorPause)]

\* lines 196-198: the delay is printed, then slept; time.sleep raises
\* ValueError on a negative delay
loop_sleep(cfg, jitter, results, saved) ==
    LET next_test == IF results.result.download > 0
                     THEN get_general_config(cfg).test_interval + jitter
                     ELSE InvalidCooldown
    IN  IF saved.kind = "raise" \/ console_print_raises(cfg) \/ next_test < 0
        THEN loop_except(cfg, saved.fs, results.alerts, <<>>)
        ELSE [pc |-> "sleeping", exc |-> "None", fs |-> saved.fs,
              alerts |-> results.alerts, slept |-> <<next_test>>]

\* lines 187-194: only a result with download > 0 is saved
loop_save(cfg, f, jitter, io, results) ==
    IF results.kind = "raise" THEN loop_except(cfg, f, results.alerts, <<>>)
    ELSE loop_sleep(cfg, jitter, results,
                    IF results.result.download > 0
                    THEN save_to_csv(results.result, cfg, f, io)
                    ELSE [kind |-> "return", exc |-> "None", fs |-> f, wrote |-> FALSE])

\* lines 180-198: one iteration
loop_iteration(cfg, h, n, f, jitter, io) ==
    loop_save(cfg, f, jitter, io, perform_speed_test(cfg, h, n))

\* main() from its start, or from the sleep that ends an iteration, to the next
\* sleep or to its end: [pc, exc, fs, loop]
main_enter(s, l, it) ==
    IF s.pc = "loop"
    THEN [pc |-> it.pc, exc |-> it.exc, fs |-> it.fs,
          loop |-> [entered |-> TRUE, probes |-> l.probes + 1,
                    slept |-> it.slept, alerts |-> it.alerts]]
    ELSE [pc |-> s.pc, exc |-> s.exc, fs |-> s.fs, loop |-> l]

\* the SMSHandler of line 171, for a configuration dict that has the keys of
\* SMSHandlerKeys (main_start raises otherwise)
main_sms_handler(cfg) ==
    [enabled |-> get_sms_config(cfg).enabled, phone_number |-> "",
     provider |-> get_sms_config(cfg).provider, api_key |-> get_sms_config(cfg).api_key]

main_step(cfg, l, n, jitter, io, s) ==
    main_enter(s, l, loop_iteration(cfg, main_sms_handler(cfg), n, s.fs, jitter, io))

main(cfg, pc, f, b, l, n, jitter, io) ==
    main_step(cfg, l, n, jitter, io,
              IF pc = "start" THEN main_start(cfg, f, b)
              ELSE [pc |-> "loop", exc |-> "None", fs |-> f, entered |-> TRUE])

----------------------------------------------------------------------------
(* Inputs *)

Speeds == {Fail, 50, 30500, 80000}
UploadSpeeds == {Fail, 50, 15000}
Pings == {500, PingLow, 50000, 1200000}
Latencies == {0, 20000}

\* What a session yields: whether endpoint selection succeeds and the latency
\* it observed, the first and the repeated download and upload readings, the
\* session's ping.  A reading the code cannot come to ask for (the repeated
\* reading after a plausible first one, anything after a failed call) is
\* held at one value.
Networks ==
    {n \in [best_server : BOOLEAN, latency : Latencies,
            d1 : Speeds, d2 : Speeds \ {30500}, u1 : UploadSpeeds, u2 : UploadSpeeds,
            ping : Pings] :
       LET dfail == ~n.best_server \/ n.d1 = Fail \/ (n.d1 < SuspiciousSpeed /\ n.d2 = Fail)
           ufail == dfail \/ n.u1 = Fail \/ (n.u1 < SuspiciousSpeed /\ n.u2 = Fail)
       IN  /\ (~n.best_server) => n.d1 = Fail
           /\ (n.d1 = Fail \/ n.d1 >= SuspiciousSpeed) => n.d2 = 50
           /\ dfail => n.u1 = Fail
           /\ (n.u1 = Fail \/ n.u1 >= SuspiciousSpeed) => n.u2 = 50
           /\ ufail => n.ping = 50000
           /\ (n.ping > PingLow /\ n.ping < PingHigh) => n.latency = 0}

\* config.ini as a user may have left it
Configs ==
    {DefaultConfig,
     [DefaultConfig EXCEPT !.exists = FALSE],
     [DefaultConfig EXCEPT !.general = [test_interval |-> 30, jitter_range |-> 60],
                           !.sms = [enabled |-> FALSE, chat_id |-> "42",
                                    provider |-> "twilio", api_key |-> "k"]]}

Handlers ==
    {[enabled |-> TRUE, phone_number |-> "555", provider |-> "twilio", api_key |-> "k"],
     [enabled |-> TRUE, phone_number |-> "555", provider |-> "NEXMO", api_key |-> "k"],
     [enabled |-> TRUE, phone_number |-> "555", provider |-> "telegram", api_key |-> "k"],
     [enabled |-> TRUE, phone_number |-> "", provider |-> "telegram", api_key |-> ""],
     [enabled |-> TRUE, phone_number |-> "", provider |-> "twilio", api_key |-> "k"],
     [enabled |-> TRUE, phone_number |-> "555", provider |-> "", api_key |-> "k"],
     [enabled |-> TRUE, phone_number |-> "555", provider |-> "Twilio", api_key |-> ""],
     [enabled |-> FALSE, phone_number |-> "555", provider |-> "nexmo", api_key |-> "k"]}

\* the provider routine answers, or raises
ProviderFaults == {"none", "raise"}

\* what a function called directly does not take: no session, no handler
NoNetwork ==
    [best_server |-> FALSE, latency |-> 0, d1 |-> Fail, d2 |-> 50, u1 |-> Fail, u2 |-> 50,
     ping |-> 50000]
NoHandler == [enabled |-> FALSE, phone_number |-> "", provider |-> "", api_key |-> ""]
Booted == [init_ok |-> TRUE, deps_ok |-> TRUE]

Measurements ==
    {FailureMeasurement,
     [download |-> 3050, upload |-> 1500, ping |-> 5000, isp |-> "isp",
      server_location |-> "server", server_id |-> 1],
     [download |-> 5, upload |-> 1500, ping |-> 2000, isp |-> "isp",
      server_location |-> "server", server_id |-> 1]}

IoFailures == {"none", "open", "header", "row"}

\* random.uniform(-jitter_range, jitter_range): its ends and its middle
Jitters(cfg) ==
    {-get_general_config(cfg).jitter_range, 0, get_general_config(cfg).jitter_range}

\* a session call raises on the path the code takes through the session
session_fails(n) ==
    \/ ~n.best_server
    \/ n.d1 = Fail \/ (n.d1 < SuspiciousSpeed /\ n.d2 = Fail)
    \/ n.u1 = Fail \/ (n.u1 < SuspiciousSpeed /\ n.u2 = Fail)

\* a session whose first readings are all plausible: no repeated reading, no
\* latency fallback, so that the readings are the measurement
session_plain(n) ==
    /\ ~session_fails(n)
    /\ n.d1 >= SuspiciousSpeed /\ n.u1 >= SuspiciousSpeed
    /\ n.ping >= PingLow /\ n.ping <= PingHigh

session_measurement(n) ==
    [download |-> Round2(n.d1), upload |-> Round2(n.u1), ping |-> Round2(n.ping),
     isp |-> "isp", server_location |-> "server", server_id |-> 1]

----------------------------------------------------------------------------
(* The state machine *)

\* main() takes config.ini, the file system, the start-up conditions and
\* the network, and builds its own handler
InitMain ==
    /\ entry = "main"
    /\ config_ini \in Configs
    /\ fs \in [data_dir : BOOLEAN, csv_exists : {FALSE}, csv : {<<>>}]
    /\ net \in Networks
    /\ boot \in [init_ok : BOOLEAN, deps_ok : BOOLEAN]
    /\ sms_handler = NoHandler

\* perform_speed_test(config_handler, sms_handler) and the network
InitProbe ==
    /\ entry = "perform_speed_test"
    /\ config_ini \in Configs
    /\ fs = [data_dir |-> TRUE, csv_exists |-> FALSE, csv |-> <<>>]
    /\ net \in Networks
    /\ boot = Booted
    /\ sms_handler \in Handlers

\* save_to_csv(data, config_handler) and the file system
InitSave ==
    /\ entry = "save_to_csv"
    /\ config_ini \in Configs
    /\ fs \in [data_dir : BOOLEAN, csv_exists : {FALSE}, csv : {<<>>}]
    /\ net = NoNetwork
    /\ boot = Booted
    /\ sms_handler = NoHandler

\* sms_handler.send_alert(message)
InitAlert ==
    /\ entry = "send_alert"
    /\ config_ini = DefaultConfig
    /\ fs = [data_dir |-> TRUE, csv_exists |-> FALSE, csv |-> <<>>]
    /\ net = NoNetwork
    /\ boot = Booted
    /\ sms_handler \in Handlers

Init ==
    /\ (InitMain \/ InitProbe \/ InitSave \/ InitAlert)
    /\ mainpc = "start"
    /\ main_exc = "None"
    /\ loop = NoLoop
    /\ probe = [calls |-> 0, kind |-> "none", exc |-> "None", result |-> NoMeasurement,
                alerts |-> <<>>, session |-> [download |-> 0, upload |-> 0]]
    /\ save = [calls |-> 0, kind |-> "none", exc |-> "None", data |-> NoMeasurement,
               io |-> "none", wrote |-> FALSE, written |-> 0]
    /\ alert = [calls |-> 0, kind |-> "none", result |-> FALSE, attempted |-> FALSE,
                response |-> "unasked", attempts |-> 0]

MainDone(r) ==
    /\ mainpc' = r.pc
    /\ main_exc' = r.exc
    /\ fs' = r.fs
    /\ loop' = r.loop

\* main() runs from its start, or from the sleep that ends an iteration, to
\* its next sleep or to its end
Main ==
    /\ entry = "main"
    /\ mainpc \in {"start", "sleeping"}
    /\ loop.probes < MaxCycles
    /\ \E jitter \in Jitters(ConfigHandler(config_ini)), io \in IoFailures :
         MainDone(main(ConfigHandler(config_ini), mainpc, fs, boot, loop, net, jitter, io))
    /\ config_ini' = ConfigHandler(config_ini)
    /\ UNCHANGED <<net, boot, sms_handler, probe, save, alert, entry>>

\* a direct call perform_speed_test(ConfigHandler(), sms_handler)
PerformSpeedTest ==
    /\ entry = "perform_speed_test"
    /\ probe.calls < MaxProbeCalls
    /\ LET cfg == ConfigHandler(config_ini)
           r == perform_speed_test(cfg, sms_handler, net)
       IN  /\ config_ini' = cfg
           /\ probe' = [calls |-> probe.calls + 1, kind |-> r.kind, exc |-> r.exc,
                        result |-> r.result, alerts |-> r.alerts, session |-> r.calls]
    /\ UNCHANGED <<fs, net, boot, sms_handler, mainpc, main_exc, loop, save, alert, entry>>

\* a direct call save_to_csv(data, ConfigHandler())
SaveToCsv ==
    /\ entry = "save_to_csv"
    /\ save.calls < MaxSaveCalls
    /\ \E data \in Measurements, io \in IoFailures :
         LET cfg == ConfigHandler(config_ini)
             r == save_to_csv(data, cfg, fs, io)
         IN  /\ config_ini' = cfg
             /\ fs' = r.fs
             /\ save' = [calls |-> save.calls + 1, kind |-> r.kind, exc |-> r.exc,
                         data |-> data, io |-> io, wrote |-> r.wrote,
                         written |-> save.written + (IF r.wrote THEN 1 ELSE 0)]
    /\ UNCHANGED <<net, boot, sms_handler, mainpc, main_exc, loop, probe, alert, entry>>

\* a direct call sms_handler.send_alert(message)
SendAlert ==
    /\ entry = "send_alert"
    /\ alert.calls < MaxAlertCalls
    /\ \E fault \in ProviderFaults :
         LET r == send_alert(sms_handler, fault)
         IN  alert' = [calls |-> alert.calls + 1, kind |-> r.kind, result |-> r.result,
                       attempted |-> r.attempted, response |-> r.response,
                       attempts |-> alert.attempts + (IF r.attempted THEN 1 ELSE 0)]
    /\ UNCHANGED <<config_ini, fs, net, boot, sms_handler, mainpc, main_exc, loop, probe,
                   save, entry>>

Next == Main \/ PerformSpeedTest \/ SaveToCsv \/ SendAlert

Spec == Init /\ [][Next]_vars

----------------------------------------------------------------------------
(* Properties *)

AllValid(m) == m.download > 0 /\ m.upload > 0 /\ m.ping > 0

Alerted(alerts, metric) == \E i \in DOMAIN alerts : alerts[i].metric = metric

AlertCount(alerts, metric) == Cardinality({i \in DOMAIN alerts : alerts[i].metric = metric})

\* Every call of console_print raises KeyError (get_general_config has no
\* 'headless'), so no call of perform_speed_test returns, and main() ends
\* before its loop.
ProbeNeverReturns == probe.kind # "return"

LoopNeverEntered == ~loop.entered /\ mainpc \in {"start", "raised"} /\ loop.slept = <<>>

\* C1: no exception escapes perform_speed_test: a call ends by returning, and
\* when a session call fails it returns the failure measurement.
C1_NoExceptionEscapes ==
    probe.calls > 0 =>
        /\ probe.kind = "return"
        /\ session_fails(net) => probe.result = FailureMeasurement

\* C4: a probe of a session with valid readings is recorded: once main() has
\* come to rest on such a session, the metrics file holds the row of that
\* measurement.
C4_SuccessfulProbeRecorded ==
    (mainpc # "start" /\ boot.init_ok /\ boot.deps_ok /\ session_plain(net)) =>
        \E i \in DOMAIN fs.csv : fs.csv[i] = Row(session_measurement(net))

\* C6: for valid readings each alert rule is applied on its own and strictly:
\* a call of perform_speed_test dispatches the low-download alert iff
\* download < thresholds.download_speed, the low-upload alert iff
\* upload < thresholds.upload_speed, the high-ping alert iff
\* ping > thresholds.ping, each at most once.
C6_AlertsIffThreshold ==
    (probe.calls > 0 /\ session_plain(net)) =>
        LET thresholds == get_thresholds(ConfigHandler(config_ini))
        IN  /\ Alerted(probe.alerts, "download") <=> net.d1 < thresholds.download_speed
            /\ Alerted(probe.alerts, "upload") <=> net.u1 < thresholds.upload_speed
            /\ Alerted(probe.alerts, "ping") <=> net.ping > thresholds.ping
            /\ \A metric \in {"download", "upload", "ping"} :
                   AlertCount(probe.alerts, metric) <= 1

\* C7: main() never ends with an exception: whatever is raised is caught in
\* the loop, which pauses 60 seconds and goes on.
C7_MainNeverRaises == mainpc # "raised"

\* C8: when first-run initialization and the dependency check can both
\* succeed, main() builds the SMSHandler, enters the loop and probes.
C8_MainStartsProbing ==
    (mainpc # "start" /\ boot.init_ok /\ boot.deps_ok) =>
        loop.entered /\ loop.probes >= 1


----------------------------------------------------------------------------
(* The history file *)

RECURSIVE HeaderCount(_)
HeaderCount(csv) ==
    IF csv = <<>> THEN 0
    ELSE (IF Head(csv).kind = "header" THEN 1 ELSE 0) + HeaderCount(Tail(csv))

DataRows(csv) == SelectSeq(csv, LAMBDA line : line.kind = "data")

\* the step is one direct call of save_to_csv
SaveStep == save'.calls = save.calls + 1

\* C11: the history file, once it exists, holds exactly one header line, and
\* that line is the first one; a call made when the file exists adds no header.
C11_ExactlyOneHeader ==
    fs.csv_exists => /\ HeaderCount(fs.csv) = 1
                     /\ Head(fs.csv).kind = "header"

\* C12: an append that wrote its row (main.py line 143 reached) leaves every
\* earlier line where it was and puts exactly its own row at the end, after
\* the header if the file is new; when every call so far wrote, the file is
\* one header followed by as many data rows as there were calls.
C12_PureAppend ==
    [][(SaveStep /\ save'.wrote) =>
          /\ fs'.csv = (IF fs.csv_exists THEN fs.csv ELSE Append(fs.csv, Header))
                          \o <<Row(save'.data)>>
          /\ (save'.written = save'.calls =>
                 /\ Head(fs'.csv) = Header
                 /\ Len(fs'.csv) = save'.calls + 1
                 /\ Len(DataRows(fs'.csv)) = save'.calls)]_vars

\* two appends in a row wrote: the file is the header and both rows
C12_Witness ==
    /\ save.calls = 2
    /\ save.written = 2
    /\ fs.csv = <<Header, fs.csv[2], Row(save.data)>>
    /\ fs.csv[2].kind = "data"

\* C13: an append made while the Data directory is missing, with no other I/O
\* failure, creates the directory and the file and writes the header and the
\* row.
C13_AppendCreatesDirectory ==
    [][(SaveStep /\ ~fs.data_dir /\ save'.io = "none") =>
          /\ fs'.data_dir
          /\ fs'.csv_exists
          /\ save'.wrote
          /\ fs'.csv = <<Header, Row(save'.data)>>]_vars

\* C14: an append whose write failed raises nothing to its caller.
C14_FailedAppendContained ==
    (save.calls > 0 /\ ~save.wrote) => save.kind = "return"


----------------------------------------------------------------------------
(* Alert dispatch *)

Incomplete(h) == h.phone_number = "" \/ h.provider = "" \/ h.api_key = ""

\* a call of send_alert asks the provider send routine at most once
OneAttemptPerCall == alert.attempts <= alert.calls

\* no probe comes to dispatch an alert (see ProbeNeverReturns)
NoProbeAlert == probe.alerts = <<>> /\ loop.alerts = <<>>

\* C15: send_alert on a handler that is disabled, or whose recipient,
\* provider or credential is empty, returns False and never calls the
\* provider send routine.
C15_SuppressedSend ==
    (alert.calls > 0 /\ (~sms_handler.enabled \/ Incomplete(sms_handler))) =>
        /\ alert.kind = "return"
        /\ ~alert.result
        /\ ~alert.attempted
        /\ alert.attempts = 0

\* a disabled handler with a complete configuration was asked to send
C15_Witness ==
    /\ alert.calls > 0
    /\ ~sms_handler.enabled /\ ~Incomplete(sms_handler)
    /\ alert.kind = "return" /\ ~alert.result /\ ~alert.attempted

\* C16: send_alert never raises: every call returns a boolean, whatever the
\* configuration and whatever the provider send routine does (raises, has no
\* such provider, reports a failure), and it returns True only when the
\* provider send routine answered True.
C16_BooleanNeverThrows ==
    alert.calls > 0 =>
        /\ alert.kind = "return"
        /\ alert.result \in BOOLEAN
        /\ (alert.result => (alert.attempted /\ alert.response = "true"))
        /\ (alert.attempted /\ alert.response # "true" => ~alert.result)

\* an enabled, complete handler whose send answered None (the provider is not
\* supported, or its routine raised): the call returned False
C16_Witness ==
    /\ alert.calls > 0
    /\ sms_handler.enabled /\ ~Incomplete(sms_handler)
    /\ alert.attempted /\ alert.response = "none"
    /\ alert.kind = "return" /\ ~alert.result

----------------------------------------------------------------------------
(* Plausibility gates and the invalid path *)

\* the download reading the code settles on, and the upload reading
final_download(n) == IF n.d1 < SuspiciousSpeed THEN n.d2 ELSE n.d1
final_upload(n) == IF n.u1 < SuspiciousSpeed THEN n.u2 ELSE n.u1

\* the ping the latency gate is to record: the session's inside (1, 1000) ms,
\* the latency of endpoint selection otherwise
gated_ping(n) == IF PingLow < n.ping /\ n.ping < PingHigh THEN n.ping ELSE n.latency

\* C18: on a session none of whose calls raises, perform_speed_test asks for
\* the download twice iff the first reading is under 0.1 Mbps, else once, and
\* likewise for the upload; the reading asked for last is the one returned,
\* also when it is under 0.1 Mbps again.
C18_RetryExactlyOnce ==
    (probe.calls > 0 /\ ~session_fails(net)
        /\ Round2(final_download(net)) > 0 /\ Round2(final_upload(net)) > 0
        /\ Round2(gated_ping(net)) > 0) =>
        /\ probe.session.download = (IF net.d1 < SuspiciousSpeed THEN 2 ELSE 1)
        /\ probe.session.upload = (IF net.u1 < SuspiciousSpeed THEN 2 ELSE 1)
        /\ probe.kind = "return"
        /\ probe.result.download = Round2(final_download(net))
        /\ probe.result.upload = Round2(final_upload(net))

\* C19: the ping perform_speed_test records is the session's ping when that
\* lies strictly between 1 ms and 1000 ms, and the latency observed at
\* endpoint selection otherwise, the values 1 ms and 1000 ms included.
C19_LatencyGate ==
    (probe.calls > 0 /\ ~session_fails(net)
        /\ Round2(final_download(net)) > 0 /\ Round2(final_upload(net)) > 0
        /\ Round2(gated_ping(net)) > 0) =>
        /\ probe.kind = "return"
        /\ probe.result.ping = Round2(gated_ping(net))

\* C20: when the probe of a cycle yields the failure measurement, main()
\* writes nothing to the metrics file and sleeps 300 seconds, whatever
\* test_interval and the jitter are.
C20_InvalidPathCooldown ==
    (entry = "main" /\ mainpc # "start" /\ boot.init_ok /\ boot.deps_ok
        /\ session_fails(net)) =>
        /\ mainpc = "sleeping"
        /\ loop.probes >= 1
        /\ loop.slept = <<InvalidCooldown>>
        /\ fs.csv = <<>>


----------------------------------------------------------------------------
(* Cycles *)

\* main() writes no line to the metrics file and makes no probe (it ends at
\* line 154, see LoopNeverEntered)
LoopNeverAppends == entry = "main" => (fs.csv = <<>> /\ loop.probes = 0)

\* C22: the alerts of a probe are decided on the values read first: the
\* low-download and low-upload alerts on the first reading, whether or not
\* it is then read again, the high-ping alert on the session's ping, whether
\* or not the selection latency then replaces it; the probe returns the
\* final values.
C22_AlertsOnFirstReadings ==
    (probe.calls > 0 /\ ~session_fails(net) /\ ~session_plain(net)
        /\ Round2(final_download(net)) > 0 /\ Round2(final_upload(net)) > 0) =>
        LET thresholds == get_thresholds(ConfigHandler(config_ini))
        IN  /\ Alerted(probe.alerts, "download") <=> net.d1 < thresholds.download_speed
            /\ Alerted(probe.alerts, "upload") <=> net.u1 < thresholds.upload_speed
            /\ Alerted(probe.alerts, "ping") <=> net.ping > thresholds.ping
            /\ \A i \in DOMAIN probe.alerts :
                   probe.alerts[i].value =
                       (IF probe.alerts[i].metric = "download" THEN net.d1
                        ELSE IF probe.alerts[i].metric = "upload" THEN net.u1
                        ELSE net.ping)

\* C25: as the provider routines stand, no call of send_alert returns True:
\* twilio and nexmo answer False (None when the routine raises), every other
\* provider name answers None.
C25_NeverDelivered ==
    alert.calls > 0 =>
        /\ ~alert.result
        /\ alert.response # "true"
        /\ (alert.attempted /\ Lower(sms_handler.provider) \notin {"twilio", "nexmo"}) =>
               alert.response = "none"
        /\ (alert.attempted /\ Lower(sms_handler.provider) \in {"twilio", "nexmo"}) =>
               alert.response \in {"false", "none"}

\* an enabled, complete twilio handler was asked to send, its routine
\* answered False and so did send_alert
C25_Witness ==
    /\ alert.calls > 0
    /\ sms_handler.enabled /\ ~Incomplete(sms_handler)
    /\ Lower(sms_handler.provider) = "twilio"
    /\ alert.attempted /\ alert.response = "false"
    /\ ~alert.result

====
